---- MODULE Spec2Model ----
(***************************************************************************)
(* WineTranslator: the launch path (AppLauncher.launch and                *)
(* launch_wine_application), the joystick reader (ControllerInput) and    *)
(* the controller remap dialog (ControllerRemapDialog).                   *)
(*                                                                         *)
(* Text is modelled as sequences of one-character strings wherever the    *)
(* code looks inside it (paths, names, argument strings, mapping          *)
(* strings); environment values, which the code only copies and           *)
(* concatenates, are TLA+ strings.                                        *)
(***************************************************************************)
EXTENDS Integers, Sequences, FiniteSets, TLC

(***************************************************************************)
(* Text helpers                                                            *)
(***************************************************************************)

\* str.join over a sequence of character sequences, with separator sep.
RECURSIVE Join(_, _)
Join(parts, sep) ==
    IF Len(parts) = 0 THEN <<>>
    ELSE IF Len(parts) = 1 THEN parts[1]
    ELSE parts[1] \o sep \o Join(Tail(parts), sep)

\* str.rfind(ch) + 1: the position just after the last ch, 0 when absent.
RECURSIVE AfterLast(_, _)
AfterLast(s, ch) ==
    IF Len(s) = 0 THEN 0
    ELSE IF s[Len(s)] = ch THEN Len(s)
    ELSE AfterLast(SubSeq(s, 1, Len(s) - 1), ch)

\* str.rstrip(chars)
RECURSIVE RStrip(_, _)
RStrip(s, chars) ==
    IF Len(s) > 0 /\ s[Len(s)] \in chars
    THEN RStrip(SubSeq(s, 1, Len(s) - 1), chars)
    ELSE s

\* str.lstrip(chars)
RECURSIVE LStrip(_, _)
LStrip(s, chars) ==
    IF Len(s) > 0 /\ s[1] \in chars THEN LStrip(Tail(s), chars) ELSE s

Whitespace == {" ", "\t", "\n"}

\* str.strip()
Strip(s) == LStrip(RStrip(s, Whitespace), Whitespace)

\* str.split() with no argument: the maximal runs of non-whitespace.
RECURSIVE SplitWs(_, _, _)
SplitWs(s, cur, acc) ==
    IF Len(s) = 0 THEN (IF Len(cur) = 0 THEN acc ELSE Append(acc, cur))
    ELSE IF s[1] \in Whitespace
         THEN SplitWs(Tail(s), <<>>, IF Len(cur) = 0 THEN acc ELSE Append(acc, cur))
         ELSE SplitWs(Tail(s), Append(cur, s[1]), acc)

split_whitespace(s) == SplitWs(s, <<>>, <<>>)

\* os.path.dirname (posixpath): the head up to the last "/", trailing
\* slashes stripped unless the head is nothing but slashes.
dirname(p) ==
    LET head == SubSeq(p, 1, AfterLast(p, "/"))
    IN  IF Len(head) > 0 /\ RStrip(head, {"/"}) # <<>>
        THEN RStrip(head, {"/"})
        ELSE head

\* dict.update: the entries of d2 replace or extend those of d1.
DictUpdate(d1, d2) ==
    [k \in DOMAIN d1 \cup DOMAIN d2 |-> IF k \in DOMAIN d2 THEN d2[k] ELSE d1[k]]

\* d[k] = v on a dict.
DictSet(d, k, v) ==
    [x \in DOMAIN d \cup {k} |-> IF x = k THEN v ELSE d[x]]

EmptyDict == [k \in {} |-> ""]

(***************************************************************************)
(* The launch path: inputs                                                 *)
(***************************************************************************)

\* The file system the launcher looks at (os.path.isfile, os.path.isdir).
PathGameExe == <<"/", "g", "/", "a", ".", "e", "x", "e">>
PathRootExe == <<"/", "a", ".", "e", "x", "e">>
PathMissingExe == <<"/", "g", "/", "n", ".", "e", "x", "e">>
PathGameDir == <<"/", "g">>
PathWorkDir == <<"/", "w">>
PathNoDir == <<"/", "x">>
PathRoot == <<"/">>

FsFiles == {PathGameExe, PathRootExe}
FsDirs == {PathRoot, PathGameDir, PathWorkDir}

isfile(p) == p \in FsFiles
isdir(p) == p \in FsDirs

\* Field values of the application row. An empty sequence stands for both
\* NULL and the empty string: the code tests these fields for truth only.
ExePaths == {PathGameExe, PathRootExe, PathMissingExe}
WorkDirs == {<<>>, PathWorkDir, PathNoDir, PathGameExe}
RunnerPaths == {<<>>, <<"/", "w", "i", "n", "e">>}
TwoArgs == <<"-", "a", " ", " ", "b", " ">>
BlankArgs == <<" ", "\t">>
ArgStrings == {<<>>, TwoArgs, BlankArgs}
DeluxeName ==
    <<"M", "y", " ", "G", "a", "m", "e", ":", " ", "D", "e", "l", "u", "x", "e", "!">>
TrailingName == <<"G", " ", "!">>
AppNames == {<<>>, <<"G", ":", " ", "1", "!">>, DeluxeName, TrailingName}
PrefixPath == "/pfx"

\* The per-application environment overrides (table env_variables).
EnvVarChoices ==
    { EmptyDict,
      [k \in {"WINEAUDIODRIVER"} |-> "jack"],
      [k \in {"WINEDLLOVERRIDES", "WINEPREFIX"} |->
            IF k = "WINEPREFIX" THEN "/alt" ELSE "d3d9=n"],
      [k \in {"PATH", "DXVK_HUD"} |-> IF k = "PATH" THEN "/opt" ELSE "1"] }

\* The environment the launcher process itself inherited (os.environ).
EnvironChoices ==
    { [k \in {"PATH"} |-> "/bin"],
      [k \in {"PATH", "WINEDLLOVERRIDES"} |->
            IF k = "PATH" THEN "/bin" ELSE "mscoree=d"],
      [k \in {"PATH", "WINEAUDIODRIVER", "WINEPREFIX"} |->
            IF k = "PATH" THEN "/bin"
            ELSE IF k = "WINEPREFIX" THEN "/old" ELSE "oss"] }

\* The application ids a caller may ask for: 1 is the stored row, 2 is not
\* in the table.
StoredAppId == {1}

\* The rows of table applications with play bookkeeping: the one launched
\* and one that no launch names.
CountedAppIds == StoredAppId \cup {3}
AppIds == {1, 2}

\* Outcomes of one probe (subprocess.run of pactl or pw-cli).
ProbeOutcomes == {"exit0", "nonzero", "timeout", "notfound", "oserror"}

(***************************************************************************)
(* State                                                                   *)
(***************************************************************************)

VARIABLES
    \* --- the launch path ---
    os_environ,       \* os.environ of the launcher process
    db_application,   \* the row of table applications with id 1 (joined)
    db_env_vars,      \* the rows of table env_variables of that application
    play_count,       \* applications.play_count, by application id
    last_played,      \* applications.last_played, by id: 0 is NULL
    pc,               \* where the one call of AppLauncher.launch stands
    app_id,           \* its argument
    working_dir,      \* local of launch: the resolved working directory
    env,              \* local of launch_wine_application
    cmd,              \* local of launch_wine_application
    log_file,         \* local of launch_wine_application: the log's file name
    log_handle,       \* "none", "open" or "closed": the log file object
    process,          \* <<>> or <<what Popen was given>>
    child,            \* "none", "running" or "exited": the spawned process
    result,           \* <<>> or <<the tuple launch returned>>
    \* --- the joystick reader and the detection thread of the remap dialog ---
    device_present,   \* whether glob finds /dev/input/js*
    dialog,           \* "closed" or "ready": the ControllerRemapDialog
    shown,            \* the message dialog on screen: "none", "NoController",
                      \* "Waiting" or "Timeout"
    remapping_button, \* self.remapping_button (<<>> is None)
    thread_pc,        \* where detect_input stands
    thread_button,    \* button_id as captured by detect_input
    device_fd,        \* "none" or "open": device_fd of the thread's ControllerInput
    elapsed,          \* time.time() - start_time, in clock ticks
    initial_axes,     \* local of wait_for_input
    wait_result,      \* <<>> (None) or <<what wait_for_input returned>>
    exit_cause,       \* the statement that ended the session ("none" while it runs)
    posted,           \* the callback handed to GLib.idle_add and not yet run
    \* --- the remap dialog's mapping ---
    controller_name,  \* self.controller_name
    controller_guid,  \* self.controller_guid
    button_mapping,   \* self.button_mapping: the custom overrides
    default_mapping,  \* self.default_mapping
    saved_mapping,    \* configurations['controller_mapping'] (<<>> is no row)
    \* --- two launcher processes started side by side ---
    app_names,        \* applications.name of the two applications, by id
    proc_pc,          \* where each launcher process stands, by application id
    proc_log,         \* log_file of each process (<<>> before it is named)
    log_contents,     \* the files of app_logs: name -> what was appended, in order
    \* --- one ControllerInput object driven call by call ---
    open_files,       \* file objects opened on the device and not closed
    \* --- the runners table ---
    runners,          \* the rows of table runners, in insertion order
    runner_call       \* <<the last call on the table, how it ended>>

launchVars ==
    <<os_environ, db_application, db_env_vars, play_count, last_played, pc,
      app_id, working_dir, env, cmd, log_file, log_handle, process, child,
      result>>

concVars == <<app_names, proc_pc, proc_log, log_contents>>

sessionVars == <<open_files>>

runnerVars == <<runners, runner_call>>

inputVars ==
    <<device_present, dialog, shown, remapping_button, thread_pc, thread_button,
      device_fd, elapsed, initial_axes, wait_result, exit_cause, posted>>

mappingVars ==
    <<controller_name, controller_guid, button_mapping, default_mapping,
      saved_mapping>>

vars == <<launchVars, inputVars, mappingVars, concVars, sessionVars, runnerVars>>

(***************************************************************************)
(* The launch path: launch_wine_application                                *)
(***************************************************************************)

\* What a raising call yields in place of a value.
Raised == "raise"

\* _detect_audio_driver: 'pulse' when a probe exits 0, 'alsa' otherwise;
\* TimeoutExpired and FileNotFoundError are swallowed, any other exception
\* of subprocess.run leaves the function.
detect_audio_driver(pactl, pwcli) ==
    IF pactl = "exit0" THEN "pulse"
    ELSE IF pactl = "oserror" THEN Raised
    ELSE IF pwcli = "exit0" THEN "pulse"
    ELSE IF pwcli = "oserror" THEN Raised
    ELSE "alsa"

DsoundOverride == "dsound=n,b"

\* A DLL-override step that forgets the inherited value.
SetDllOverrides_AlwaysFresh(e) ==
    DictSet(e, "WINEDLLOVERRIDES", DsoundOverride)

\* The DLL-override step: appended to an inherited value, else set fresh.
SetDllOverrides(e) ==
    IF "WINEDLLOVERRIDES" \in DOMAIN e
    THEN DictSet(e, "WINEDLLOVERRIDES", e["WINEDLLOVERRIDES"] \o ";" \o DsoundOverride)
    ELSE DictSet(e, "WINEDLLOVERRIDES", DsoundOverride)

\* A custom-variable step that only adds the keys not yet set.
ApplyEnvVars_KeepExisting(e, env_vars) ==
    DictUpdate(env_vars, e)

\* The custom-variable step: if env_vars: env.update(env_vars).
ApplyEnvVars(e, env_vars) ==
    IF DOMAIN env_vars # {} THEN DictUpdate(e, env_vars) ELSE e

\* The environment launch_wine_application builds.
BuildEnv(environ, prefix_path, audio_driver, env_vars) ==
    ApplyEnvVars(
        SetDllOverrides(
            DictSet(DictSet(environ, "WINEPREFIX", prefix_path),
                    "WINEAUDIODRIVER", audio_driver)),
        env_vars)

\* cmd = [wine_path, exe_path]; if args: cmd.extend(args)
BuildCmd(wine_path, exe_path, args) ==
    IF Len(args) > 0 THEN <<wine_path, exe_path>> \o args ELSE <<wine_path, exe_path>>

Letters ==
    {"a", "b", "c", "d", "e", "f", "g", "h", "i", "j", "k", "l", "m", "n", "o",
     "p", "q", "r", "s", "t", "u", "v", "w", "x", "y", "z",
     "A", "B", "C", "D", "E", "F", "G", "H", "I", "J", "K", "L", "M", "N", "O",
     "P", "Q", "R", "S", "T", "U", "V", "W", "X", "Y", "Z"}
Digits == {"0", "1", "2", "3", "4", "5", "6", "7", "8", "9"}

\* str.isalnum on one character.
isalnum(c) == c \in Letters \cup Digits

\* "".join(c for c in app_name if c.isalnum() or c in (' ', '-', '_'))
RECURSIVE KeepSafe(_)
KeepSafe(s) ==
    IF Len(s) = 0 THEN <<>>
    ELSE IF isalnum(s[1]) \/ s[1] \in {" ", "-", "_"}
         THEN <<s[1]>> \o KeepSafe(Tail(s))
         ELSE KeepSafe(Tail(s))

\* A name that goes into the file name unfiltered.
safe_name_Unfiltered(app_name) == RStrip(app_name, Whitespace)

\* safe_name: the kept characters, then .rstrip()
safe_name(app_name) == RStrip(KeepSafe(app_name), Whitespace)

DotLog == <<".", "l", "o", "g">>
UnknownAppLog ==
    <<"u", "n", "k", "n", "o", "w", "n", "_", "a", "p", "p">> \o DotLog

\* The log's file name inside log_dir.
LogFileName(app_name) ==
    IF Len(app_name) > 0 THEN safe_name(app_name) \o DotLog ELSE UnknownAppLog

(***************************************************************************)
(* The launch path: AppLauncher.launch                                     *)
(***************************************************************************)

\* db.get_application: <<row>> or <<>> (None).
get_application(id) == IF id \in StoredAppId THEN <<db_application>> ELSE <<>>

\* A resolution that tests the field for emptiness only.
ResolveWorkingDir_NoDirCheck(app) ==
    IF Len(app.working_directory) = 0
    THEN dirname(app.executable_path)
    ELSE app.working_directory

\* The working directory launch resolves for a row.
ResolveWorkingDir(app) ==
    IF Len(app.working_directory) = 0 \/ ~isdir(app.working_directory)
    THEN dirname(app.executable_path)
    ELSE app.working_directory

\* An argument string handed over as one token.
PrepareArgs_Unsplit(app) ==
    IF Len(app.arguments) > 0 THEN <<app.arguments>> ELSE <<>>

\* args = app['arguments'].split() if app['arguments'] else []
PrepareArgs(app) ==
    IF Len(app.arguments) > 0 THEN split_whitespace(app.arguments) ELSE <<>>

Returns(success, message, has_process) ==
    <<[success |-> success, message |-> message, process |-> has_process]>>

\* launch returns early, before anything is opened or spawned.
EarlyReturn(message) ==
    /\ pc' = "returned"
    /\ result' = Returns(FALSE, message, FALSE)
    /\ UNCHANGED <<working_dir, env, cmd, log_file>>

\* AppLauncher.launch from its entry up to the open of the log file: the
\* checks of the row, the locals, and launch_wine_application's environment,
\* command and log name. pactl and pwcli are the outcomes of the two probes.
Launch(id, pactl, pwcli) ==
    /\ UNCHANGED <<concVars, sessionVars, runnerVars>>
    /\ UNCHANGED <<inputVars, mappingVars>>
    /\ pc = "idle"
    /\ app_id' = id
    /\ LET found == get_application(id) IN
       IF found = <<>> THEN EarlyReturn("Application not found")
       ELSE LET app == found[1] IN
            IF ~isfile(app.executable_path) THEN EarlyReturn("Executable not found")
            ELSE IF Len(app.runner_path) = 0
            THEN EarlyReturn("Wine runner not configured for this application")
            ELSE IF detect_audio_driver(pactl, pwcli) = Raised
            THEN /\ pc' = "returned"
                 /\ result' = Returns(FALSE, "Failed to launch application", FALSE)
                 /\ working_dir' = ResolveWorkingDir(app)
                 /\ UNCHANGED <<env, cmd, log_file>>
            ELSE /\ pc' = "open_log"
                 /\ working_dir' = ResolveWorkingDir(app)
                 /\ env' = BuildEnv(os_environ, app.prefix_path,
                                    detect_audio_driver(pactl, pwcli), db_env_vars)
                 /\ cmd' = BuildCmd(app.runner_path, app.executable_path, PrepareArgs(app))
                 /\ log_file' = LogFileName(app.name)
                 /\ UNCHANGED result
    /\ UNCHANGED <<os_environ, db_application, db_env_vars, play_count, last_played,
                   log_handle, process, child>>

\* log_handle = open(log_file, 'a'): the file object, or an OSError that
\* launch's except clause turns into a failure.
OpenLog(ok) ==
    /\ UNCHANGED <<concVars, sessionVars, runnerVars>>
    /\ UNCHANGED <<inputVars, mappingVars>>
    /\ pc = "open_log"
    /\ IF ok
       THEN /\ log_handle' = "open"
            /\ pc' = "spawn"
            /\ UNCHANGED result
       ELSE /\ pc' = "returned"
            /\ result' = Returns(FALSE, "Failed to launch application", FALSE)
            /\ UNCHANGED log_handle
    /\ UNCHANGED <<os_environ, db_application, db_env_vars, play_count, last_played,
                   app_id, working_dir, env, cmd, log_file, process, child>>

\* The banner, then subprocess.Popen(cmd, env=env, cwd=working_dir,
\* stdout=log_handle): the child, or an exception (of the date call, the
\* writes or Popen) that is logged and raised again, and that launch's except
\* clause turns into a failure. Neither path closes log_handle.
Spawn(ok) ==
    /\ UNCHANGED <<concVars, sessionVars, runnerVars>>
    /\ UNCHANGED <<inputVars, mappingVars>>
    /\ pc = "spawn"
    /\ IF ok
       THEN /\ process' = <<[cmd |-> cmd, env |-> env, cwd |-> working_dir,
                             stdout |-> log_file]>>
            /\ child' = "running"
            /\ pc' = "update_play_time"
            /\ UNCHANGED result
       ELSE /\ pc' = "returned"
            /\ result' = Returns(FALSE, "Failed to launch application", FALSE)
            /\ UNCHANGED <<process, child>>
    /\ UNCHANGED <<os_environ, db_application, db_env_vars, play_count, last_played,
                   app_id, working_dir, env, cmd, log_file, log_handle>>

\* An UPDATE without its WHERE clause: every row is counted.
UpdatePlayTime_AllRows(ok) ==
    /\ UNCHANGED <<concVars, sessionVars, runnerVars>>
    /\ UNCHANGED <<inputVars, mappingVars>>
    /\ pc = "update_play_time"
    /\ pc' = "returned"
    /\ IF ok
       THEN /\ play_count' = [i \in DOMAIN play_count |-> play_count[i] + 1]
            /\ last_played' = [i \in DOMAIN last_played |-> 1]
            /\ result' = Returns(TRUE, "Launched", TRUE)
       ELSE /\ result' = Returns(FALSE, "Failed to launch application", FALSE)
            /\ UNCHANGED <<play_count, last_played>>
    /\ UNCHANGED <<os_environ, db_application, db_env_vars, app_id, working_dir,
                   env, cmd, log_file, log_handle, process, child>>

\* db.update_application_play_time(app_id) inside launch's try block, then
\* the return: the UPDATE and commit, or an sqlite3 error that the except
\* clause turns into (False, "Failed to launch application: ...", None).
UpdatePlayTime(ok) ==
    /\ UNCHANGED <<concVars, sessionVars, runnerVars>>
    /\ UNCHANGED <<inputVars, mappingVars>>
    /\ pc = "update_play_time"
    /\ pc' = "returned"
    /\ IF ok
       THEN /\ play_count' = [play_count EXCEPT ![app_id] = @ + 1]
            /\ last_played' = [last_played EXCEPT ![app_id] = 1]
            /\ result' = Returns(TRUE, "Launched", TRUE)
       ELSE /\ result' = Returns(FALSE, "Failed to launch application", FALSE)
            /\ UNCHANGED <<play_count, last_played>>
    /\ UNCHANGED <<os_environ, db_application, db_env_vars, app_id, working_dir,
                   env, cmd, log_file, log_handle, process, child>>

\* The caller (launch_thread of the main window, launch of the command
\* line launcher) reads success and message and drops the tuple, the Popen
\* object with it.
CallerDiscards ==
    /\ UNCHANGED <<concVars, sessionVars, runnerVars>>
    /\ UNCHANGED <<inputVars, mappingVars>>
    /\ pc = "returned"
    /\ pc' = "discarded"
    /\ UNCHANGED <<os_environ, db_application, db_env_vars, play_count, last_played,
                   app_id, working_dir, env, cmd, log_file, log_handle, process,
                   child, result>>

\* The spawned Windows program ends.
ChildExits ==
    /\ UNCHANGED <<concVars, sessionVars, runnerVars>>
    /\ UNCHANGED <<inputVars, mappingVars>>
    /\ child = "running"
    /\ child' = "exited"
    /\ UNCHANGED <<os_environ, db_application, db_env_vars, play_count, last_played,
                   pc, app_id, working_dir, env, cmd, log_file, log_handle, process,
                   result>>


(***************************************************************************)
(* The mapping codec of the remap dialog                                   *)
(***************************************************************************)

\* The keys of ControllerRemapDialog.BUTTONS, in the order of the dict.
BUTTONS ==
    <<
      <<"a">>, <<"b">>, <<"x">>, <<"y">>, <<"b", "a", "c", "k">>,
      <<"s", "t", "a", "r", "t">>, <<"g", "u", "i", "d", "e">>,
      <<"l", "e", "f", "t", "s", "h", "o", "u", "l", "d", "e", "r">>,
      <<"r", "i", "g", "h", "t", "s", "h", "o", "u", "l", "d", "e", "r">>,
      <<"l", "e", "f", "t", "s", "t", "i", "c", "k">>,
      <<"r", "i", "g", "h", "t", "s", "t", "i", "c", "k">>,
      <<"l", "e", "f", "t", "x">>, <<"l", "e", "f", "t", "y">>,
      <<"r", "i", "g", "h", "t", "x">>, <<"r", "i", "g", "h", "t", "y">>,
      <<"l", "e", "f", "t", "t", "r", "i", "g", "g", "e", "r">>,
      <<"r", "i", "g", "h", "t", "t", "r", "i", "g", "g", "e", "r">>,
      <<"d", "p", "u", "p">>, <<"d", "p", "d", "o", "w", "n">>,
      <<"d", "p", "l", "e", "f", "t">>, <<"d", "p", "r", "i", "g", "h", "t">>
    >>

\* The entries of ControllerInput.get_default_mapping after GUID and name.
DefaultLayoutText ==
    <<
      "a", ":", "b", "0", ",", "b", ":", "b", "1", ",", "x", ":", "b", "2",
      ",", "y", ":", "b", "3", ",", "b", "a", "c", "k", ":", "b", "6", ",",
      "s", "t", "a", "r", "t", ":", "b", "7", ",", "g", "u", "i", "d", "e",
      ":", "b", "8", ",", "l", "e", "f", "t", "s", "h", "o", "u", "l", "d",
      "e", "r", ":", "b", "4", ",", "r", "i", "g", "h", "t", "s", "h", "o",
      "u", "l", "d", "e", "r", ":", "b", "5", ",", "l", "e", "f", "t", "s",
      "t", "i", "c", "k", ":", "b", "9", ",", "r", "i", "g", "h", "t", "s",
      "t", "i", "c", "k", ":", "b", "1", "0", ",", "l", "e", "f", "t", "x",
      ":", "a", "0", ",", "l", "e", "f", "t", "y", ":", "a", "1", ",", "r",
      "i", "g", "h", "t", "x", ":", "a", "2", ",", "r", "i", "g", "h", "t",
      "y", ":", "a", "3", ",", "l", "e", "f", "t", "t", "r", "i", "g", "g",
      "e", "r", ":", "a", "4", ",", "r", "i", "g", "h", "t", "t", "r", "i",
      "g", "g", "e", "r", ":", "a", "5", ",", "d", "p", "u", "p", ":", "h",
      "0", ".", "1", ",", "d", "p", "d", "o", "w", "n", ":", "h", "0", ".",
      "4", ",", "d", "p", "l", "e", "f", "t", ":", "h", "0", ".", "8", ",",
      "d", "p", "r", "i", "g", "h", "t", ":", "h", "0", ".", "2"
    >>

Comma == <<",">>
Colon == <<":">>

\* f"03000000{vendor:0>4}0000{product:0>4}000000000000"
ZeroPad4(t) ==
    IF Len(t) >= 4 THEN t
    ELSE SubSeq(<<"0", "0", "0", "0">>, 1, 4 - Len(t)) \o t

GuidHead == <<"0", "3", "0", "0", "0", "0", "0", "0">>
GuidTail == <<"0", "0", "0", "0", "0", "0", "0", "0", "0", "0", "0", "0">>

get_device_guid(vendor, product) ==
    GuidHead \o ZeroPad4(vendor) \o <<"0", "0", "0", "0">> \o ZeroPad4(product) \o GuidTail

\* ControllerInput.get_default_mapping
get_default_mapping(guid, device_name) ==
    guid \o Comma \o device_name \o Comma \o DefaultLayoutText

\* str.find(ch, i - 1) + 1: the position of the first ch at or after i, 0
\* when there is none.
FirstFrom(s, ch, i) ==
    LET at == {j \in i..Len(s) : s[j] = ch}
    IN  IF at = {} THEN 0 ELSE CHOOSE j \in at : \A k \in at : j <= k

\* str.split(ch): the fields of s from position start on.
RECURSIVE SplitFrom(_, _, _)
SplitFrom(s, ch, start) ==
    LET c == FirstFrom(s, ch, start)
    IN  IF c = 0 THEN <<SubSeq(s, start, Len(s))>>
        ELSE <<SubSeq(s, start, c - 1)>> \o SplitFrom(s, ch, c + 1)

split(s, ch) == SplitFrom(s, ch, 1)

\* A loop in which a name met again keeps its first token.
RECURSIVE ParseParts_FirstWins(_, _, _)
ParseParts_FirstWins(parts, from, mapping_dict) ==
    IF from > Len(parts) THEN mapping_dict
    ELSE LET part == parts[from]
             c == FirstFrom(part, ":", 1)
             key == Strip(SubSeq(part, 1, c - 1))
         IN  IF c > 0 /\ key \notin DOMAIN mapping_dict
             THEN ParseParts_FirstWins(parts, from + 1,
                      DictSet(mapping_dict, key, Strip(SubSeq(part, c + 1, Len(part)))))
             ELSE ParseParts_FirstWins(parts, from + 1, mapping_dict)

\* The loop of _parse_mapping over parts[from..]: a part with a colon is
\* split once at the first colon, both halves stripped, and stored.
RECURSIVE ParseParts(_, _, _)
ParseParts(parts, from, mapping_dict) ==
    IF from > Len(parts) THEN mapping_dict
    ELSE LET part == parts[from]
             c == FirstFrom(part, ":", 1)
         IN  IF c > 0
             THEN ParseParts(parts, from + 1,
                      DictSet(mapping_dict,
                              Strip(SubSeq(part, 1, c - 1)),
                              Strip(SubSeq(part, c + 1, Len(part)))))
             ELSE ParseParts(parts, from + 1, mapping_dict)

NoMapping == [k \in {} |-> <<>>]

\* A parse that skips one field more than the GUID and the name.
parse_mapping_SkipsThree(mapping_str) ==
    IF Len(mapping_str) = 0 THEN NoMapping
    ELSE LET parts == split(mapping_str, ",")
         IN  IF Len(parts) < 3 THEN NoMapping
             ELSE ParseParts(parts, 4, NoMapping)

\* ControllerRemapDialog._parse_mapping
parse_mapping(mapping_str) ==
    IF Len(mapping_str) = 0 THEN NoMapping
    ELSE LET parts == split(mapping_str, ",")
         IN  IF Len(parts) < 3 THEN NoMapping
             ELSE ParseParts(parts, 3, NoMapping)

\* A loop that writes the default entry of a name after its custom one.
RECURSIVE BuildEntries_BothTokens(_, _, _)
BuildEntries_BothTokens(i, bm, dm) ==
    IF i > Len(BUTTONS) THEN <<>>
    ELSE LET button_name == BUTTONS[i] IN
         (IF button_name \in DOMAIN bm
          THEN <<button_name \o Colon \o bm[button_name]>> ELSE <<>>)
         \o (IF button_name \in DOMAIN dm
             THEN <<button_name \o Colon \o dm[button_name]>> ELSE <<>>)
         \o BuildEntries_BothTokens(i + 1, bm, dm)

\* The loop of _build_mapping_string over BUTTONS[i..]: the custom token,
\* else the default token, else nothing.
RECURSIVE BuildEntries(_, _, _)
BuildEntries(i, bm, dm) ==
    IF i > Len(BUTTONS) THEN <<>>
    ELSE LET button_name == BUTTONS[i] IN
         IF button_name \in DOMAIN bm
         THEN <<button_name \o Colon \o bm[button_name]>> \o BuildEntries(i + 1, bm, dm)
         ELSE IF button_name \in DOMAIN dm
         THEN <<button_name \o Colon \o dm[button_name]>> \o BuildEntries(i + 1, bm, dm)
         ELSE BuildEntries(i + 1, bm, dm)

\* A build that adds an entry for a name outside BUTTONS.
build_mapping_string_ExtraEntry(guid, device_name, bm, dm) ==
    Join(<<guid, device_name>> \o BuildEntries(1, bm, dm)
             \o <<<<"m", "i", "s", "c", "1", ":", "b", "1", "1">>>>, Comma)

\* A build in which the default token shadows the custom one.
build_mapping_string_DefaultFirst(guid, device_name, bm, dm) ==
    Join(<<guid, device_name>> \o BuildEntries(1, dm, bm), Comma)

\* ControllerRemapDialog._build_mapping_string
build_mapping_string(guid, device_name, bm, dm) ==
    Join(<<guid, device_name>> \o BuildEntries(1, bm, dm), Comma)

(***************************************************************************)
(* The joystick reader: ControllerInput                                    *)
(***************************************************************************)

JS_EVENT_BUTTON == 1
JS_EVENT_AXIS == 2
JS_EVENT_INIT == 128
axis_threshold == 16000

\* The wait's timeout and the horizon of the clock, in ticks.
Timeout == 2
MaxElapsed == Timeout + 2

\* event_type & mask # 0, for a mask of one bit.
HasBit(event_type, mask) == (event_type \div mask) % 2 = 1

\* The event records the device may deliver (value, type, number).
EventNumbers == {0, 1}
AxisValues == {-16000, 0, 1, 16001}
ButtonEvents ==
    [type : {JS_EVENT_BUTTON, JS_EVENT_BUTTON + JS_EVENT_INIT},
     number : EventNumbers, value : {0, 1}]
AxisEvents ==
    [type : {JS_EVENT_AXIS, JS_EVENT_AXIS + JS_EVENT_INIT},
     number : EventNumbers, value : AxisValues]
Events == ButtonEvents \cup AxisEvents

Abs(n) == IF n < 0 THEN -n ELSE n

DigitChars == <<"0", "1", "2", "3", "4", "5", "6", "7", "8", "9">>

\* str(n) for a natural number.
RECURSIVE DecStr(_)
DecStr(n) ==
    IF n < 10 THEN <<DigitChars[n + 1]>>
    ELSE DecStr(n \div 10) \o <<DigitChars[(n % 10) + 1]>>

\* What wait_for_input returns for an input: ('button', number) or
\* ('axis', axis_str); the field the tuple does not have is left empty.
ButtonResult(number) == <<[kind |-> "button", number |-> number, axis_str |-> <<>>]>>
AxisResult_Flipped(number, value, initial_value) ==
    <<[kind |-> "axis", number |-> number,
       axis_str |-> <<"a">> \o DecStr(number) \o
                    (IF value < initial_value THEN <<"+">> ELSE <<"-">>)]>>
AxisResult(number, value, initial_value) ==
    <<[kind |-> "axis", number |-> number,
       axis_str |-> <<"a">> \o DecStr(number) \o
                    (IF value < initial_value THEN <<"-">> ELSE <<"+">>)]>>

\* The baseline of an axis event: the recorded position, 0 when none is.
InitialValue(axes, number) == IF number \in DOMAIN axes THEN axes[number] ELSE 0

\* A close that leaves the handle as it is.
close_NoRelease(fd) == fd

\* ControllerInput.close on the handle.
close(fd) == IF fd # "none" THEN "none" ELSE fd

\* mapping_str of detect_input for a result of wait_for_input.
MappingStr(r) ==
    IF r.kind = "button" THEN <<"b">> \o DecStr(r.number) ELSE r.axis_str

NoCallback == <<>>
DetectedCallback(button_id, mapping_str) ==
    <<[kind |-> "detected", button_id |-> button_id, mapping_str |-> mapping_str]>>
TimeoutCallback ==
    <<[kind |-> "timeout", button_id |-> <<>>, mapping_str |-> <<>>]>>

NoAxes == [n \in {} |-> 0]

\* The buttons whose Remap row is clicked, and the device the dialog finds.
RemapButtons == {<<"a">>, <<"l", "e", "f", "t", "x">>}
PadName == <<"P", "a", "d">>
NoId == <<>>

(***************************************************************************)
(* The remap dialog: opening, and the detection thread                     *)
(***************************************************************************)

\* A device name with the separators of the mapping string in it.
CommaName == <<"P", ",", "a", ":", "b", "9">>

\* hashlib.md5(device_name.encode()).hexdigest() of the device names used.
md5_hexdigest(device_name) ==
    CASE device_name = PadName ->
           <<"d", "e", "4", "3", "4", "6", "8", "a", "d", "a", "f", "6", "a", "c", "b", "2", "c", "3", "8", "e", "b", "c", "0", "c", "1", "1", "7", "6", "f", "8", "2", "f">>
      [] device_name = CommaName ->
           <<"8", "7", "0", "f", "e", "7", "7", "d", "2", "d", "f", "6", "e", "c", "0", "2", "d", "6", "f", "d", "8", "3", "8", "4", "a", "f", "f", "b", "f", "7", "2", "0">>

\* ControllerInput._get_device_guid: the template filled from the sysfs
\* ids, and the hash of the device name when reading them raised.
guid_of_device(device_name, vendor, product, raised) ==
    IF raised THEN SubSeq(md5_hexdigest(device_name), 1, 32)
    ELSE get_device_guid(vendor, product)

\* MainWindow._show_remap_controller_dialog and ControllerRemapDialog.__init__
\* on a device with this name and these sysfs ids: without a controller
\* the constructor of ControllerInput raises, the dialog shows "No
\* controller detected" and closes itself.
OpenDialog(device_name, vendor, product, raised) ==
    /\ UNCHANGED <<concVars, sessionVars, runnerVars>>
    /\ dialog = "closed"
    /\ shown = "none"
    /\ IF ~device_present
       THEN /\ shown' = "NoController"
            /\ UNCHANGED <<dialog, mappingVars>>
       ELSE /\ dialog' = "ready"
            /\ controller_name' = device_name
            /\ controller_guid' = guid_of_device(device_name, vendor, product, raised)
            /\ button_mapping' =
                  IF Len(saved_mapping) > 0 THEN parse_mapping(saved_mapping) ELSE NoMapping
            /\ default_mapping' =
                  parse_mapping(get_default_mapping(
                      guid_of_device(device_name, vendor, product, raised), device_name))
            /\ UNCHANGED <<shown, saved_mapping>>
    /\ UNCHANGED <<launchVars, device_present, remapping_button, thread_pc,
                   thread_button, device_fd, elapsed, initial_axes, wait_result,
                   exit_cause, posted>>

\* The user answers the message dialog on screen (Cancel on "Waiting for
\* input", OK on the others): no handler is connected to the response.
DismissMessage ==
    /\ UNCHANGED <<concVars, sessionVars, runnerVars>>
    /\ shown # "none"
    /\ shown' = "none"
    /\ UNCHANGED <<launchVars, mappingVars, device_present, dialog, remapping_button,
                   thread_pc, thread_button, device_fd, elapsed, initial_axes,
                   wait_result, exit_cause, posted>>

\* _on_remap_button_clicked: the waiting dialog, and the thread started.
RemapClicked(button_id) ==
    /\ UNCHANGED <<concVars, sessionVars, runnerVars>>
    /\ dialog = "ready"
    /\ shown = "none"
    /\ thread_pc \in {"none", "finished"}
    /\ posted = NoCallback
    /\ shown' = "Waiting"
    /\ remapping_button' = button_id
    /\ thread_button' = button_id
    /\ thread_pc' = "construct"
    /\ device_fd' = "none"
    /\ elapsed' = 0
    /\ initial_axes' = NoAxes
    /\ wait_result' = <<>>
    /\ exit_cause' = "none"
    /\ UNCHANGED <<launchVars, mappingVars, device_present, dialog, posted>>

\* The thread ends in the except clause of detect_input.
ThreadFails(cause) ==
    /\ exit_cause' = cause
    /\ posted' = TimeoutCallback
    /\ thread_pc' = "finished"

\* detect_input: ControllerInput(), which raises RuntimeError("No controller
\* found") when glob finds no device.
ThreadConstruct ==
    /\ UNCHANGED <<concVars, sessionVars, runnerVars>>
    /\ thread_pc = "construct"
    /\ IF device_present
       THEN /\ thread_pc' = "enter"
            /\ UNCHANGED <<exit_cause, posted>>
       ELSE ThreadFails("nodevice")
    /\ UNCHANGED <<launchVars, mappingVars, device_present, dialog, shown,
                   remapping_button, thread_button, device_fd, elapsed, initial_axes,
                   wait_result>>

\* __enter__: open(), then the head of wait_for_input (the handle is set,
\* so it is not opened again; start_time; initial_axes = {}). The open of the
\* device file may raise.
ThreadEnter(ok) ==
    /\ UNCHANGED <<concVars, sessionVars, runnerVars>>
    /\ thread_pc = "enter"
    /\ ok => device_present
    /\ IF ok
       THEN /\ device_fd' = "open"
            /\ thread_pc' = "wait_check"
            /\ elapsed' = 0
            /\ initial_axes' = NoAxes
            /\ UNCHANGED <<exit_cause, posted>>
       ELSE /\ ThreadFails("openerror")
            /\ UNCHANGED <<device_fd, elapsed, initial_axes>>
    /\ UNCHANGED <<launchVars, mappingVars, device_present, dialog, shown,
                   remapping_button, thread_button, wait_result>>

\* wait_for_input leaves its loop and returns r; its locals are gone.
WaitReturns(r, cause) ==
    /\ wait_result' = r
    /\ exit_cause' = cause
    /\ thread_pc' = "exit"
    /\ elapsed' = 0
    /\ initial_axes' = NoAxes

\* while time.time() - start_time < timeout
WaitCheck ==
    /\ UNCHANGED <<concVars, sessionVars, runnerVars>>
    /\ thread_pc = "wait_check"
    /\ IF elapsed < Timeout
       THEN /\ thread_pc' = "wait_read"
            /\ UNCHANGED <<wait_result, exit_cause, elapsed, initial_axes>>
       ELSE WaitReturns(<<>>, "timeout")
    /\ UNCHANGED <<launchVars, mappingVars, device_present, dialog, shown,
                   remapping_button, thread_button, device_fd, posted>>

\* A test that takes a release for a press.
IsButtonPress_AnyValue(ev) == ev.type = JS_EVENT_BUTTON

\* event_type == self.JS_EVENT_BUTTON and value == 1
IsButtonPress(ev) == ev.type = JS_EVENT_BUTTON /\ ev.value = 1

\* A test that finds the initialization flag on no event.
IsInitEvent_Never(ev) == FALSE

\* event_type & self.JS_EVENT_INIT
IsInitEvent(ev) == HasBit(ev.type, JS_EVENT_INIT)

\* A test that takes a movement of exactly the threshold as enough.
MovedEnough_AtThreshold(value, initial_value) ==
    Abs(value - initial_value) >= axis_threshold

\* abs(value - initial_value) > axis_threshold
MovedEnough(value, initial_value) == Abs(value - initial_value) > axis_threshold

\* self.device_fd.read(8) returns the 8 bytes of event ev, and the body of
\* the loop handles it.
ReadEvent(ev) ==
    /\ UNCHANGED <<concVars, sessionVars, runnerVars>>
    /\ thread_pc = "wait_read"
    /\ device_present
    /\ IF IsInitEvent(ev)
       THEN \* an init event: an axis records its position; continue
            /\ initial_axes' =
                  IF HasBit(ev.type, JS_EVENT_AXIS)
                  THEN DictSet(initial_axes, ev.number, ev.value)
                  ELSE initial_axes
            /\ thread_pc' = "wait_check"
            /\ UNCHANGED <<wait_result, exit_cause, elapsed>>
       ELSE IF IsButtonPress(ev)
       THEN WaitReturns(ButtonResult(ev.number), "input")
       ELSE IF ev.type = JS_EVENT_AXIS
       THEN IF MovedEnough(ev.value, InitialValue(initial_axes, ev.number))
            THEN WaitReturns(AxisResult(ev.number, ev.value,
                                        InitialValue(initial_axes, ev.number)),
                             "input")
            ELSE /\ initial_axes' =
                       IF ev.number \in DOMAIN initial_axes
                       THEN initial_axes
                       ELSE DictSet(initial_axes, ev.number, ev.value)
                 /\ thread_pc' = "wait_sleep"
                 /\ UNCHANGED <<wait_result, exit_cause, elapsed>>
       ELSE /\ thread_pc' = "wait_sleep"
            /\ UNCHANGED <<initial_axes, wait_result, exit_cause, elapsed>>
    /\ UNCHANGED <<launchVars, mappingVars, device_present, dialog, shown,
                   remapping_button, thread_button, device_fd, posted>>

\* The read returns fewer than 8 bytes: break, and None is returned.
ReadShort ==
    /\ UNCHANGED <<concVars, sessionVars, runnerVars>>
    /\ thread_pc = "wait_read"
    /\ WaitReturns(<<>>, "short")
    /\ UNCHANGED <<launchVars, mappingVars, device_present, dialog, shown,
                   remapping_button, thread_button, device_fd, posted>>

\* The read raises: the except clause prints, break, and None is returned.
ReadError ==
    /\ UNCHANGED <<concVars, sessionVars, runnerVars>>
    /\ thread_pc = "wait_read"
    /\ WaitReturns(<<>>, "error")
    /\ UNCHANGED <<launchVars, mappingVars, device_present, dialog, shown,
                   remapping_button, thread_button, device_fd, posted>>

\* time.sleep(0.01), then the loop's condition again.
Sleep ==
    /\ UNCHANGED <<concVars, sessionVars, runnerVars>>
    /\ thread_pc = "wait_sleep"
    /\ thread_pc' = "wait_check"
    /\ UNCHANGED <<launchVars, mappingVars, device_present, dialog, shown,
                   remapping_button, thread_button, device_fd, elapsed, initial_axes,
                   wait_result, exit_cause, posted>>

\* The clock advances while the thread sleeps or sits in the read: the
\* device file is opened in blocking mode, so a read with no event pending
\* does not return.
Tick ==
    /\ UNCHANGED <<concVars, sessionVars, runnerVars>>
    /\ thread_pc \in {"wait_read", "wait_sleep"}
    /\ elapsed < MaxElapsed
    /\ elapsed' = elapsed + 1
    /\ UNCHANGED <<launchVars, mappingVars, device_present, dialog, shown,
                   remapping_button, thread_pc, thread_button, device_fd,
                   initial_axes, wait_result, exit_cause, posted>>

\* detect_input after wait_for_input returned: the callback handed to
\* GLib.idle_add, then __exit__, which closes the device.
ThreadExit ==
    /\ UNCHANGED <<concVars, sessionVars, runnerVars>>
    /\ thread_pc = "exit"
    /\ posted' =
          IF wait_result # <<>>
          THEN DetectedCallback(thread_button, MappingStr(wait_result[1]))
          ELSE TimeoutCallback
    /\ device_fd' = close(device_fd)
    /\ thread_pc' = "finished"
    /\ UNCHANGED <<launchVars, mappingVars, device_present, dialog, shown,
                   remapping_button, thread_button, elapsed, initial_axes,
                   wait_result, exit_cause>>

\* _on_input_detected: the waiting dialog is closed and the override stored.
OnInputDetected(button_id, mapping_str) ==
    /\ shown' = IF shown = "Waiting" THEN "none" ELSE shown
    /\ button_mapping' = DictSet(button_mapping, button_id, mapping_str)

\* _on_input_timeout: the waiting dialog is closed, "Timeout" is shown.
OnInputTimeout ==
    /\ shown' = "Timeout"
    /\ UNCHANGED button_mapping

\* The main loop runs the callback the thread handed to GLib.idle_add.
RunCallback ==
    /\ UNCHANGED <<concVars, sessionVars, runnerVars>>
    /\ posted # NoCallback
    /\ posted' = NoCallback
    /\ IF posted[1].kind = "detected"
       THEN OnInputDetected(posted[1].button_id, posted[1].mapping_str)
       ELSE OnInputTimeout
    /\ UNCHANGED <<launchVars, controller_name, controller_guid, default_mapping,
                   saved_mapping, device_present, dialog, remapping_button,
                   thread_pc, thread_button, device_fd, elapsed, initial_axes,
                   wait_result, exit_cause>>

\* The controller is unplugged, or plugged in.
Replug ==
    /\ UNCHANGED <<concVars, sessionVars, runnerVars>>
    /\ device_present' = ~device_present
    /\ UNCHANGED <<launchVars, mappingVars, dialog, shown, remapping_button,
                   thread_pc, thread_button, device_fd, elapsed, initial_axes,
                   wait_result, exit_cause, posted>>

\* The launch path before any launch, with one row stored.
LaunchIdle ==
    /\ os_environ = [k \in {"PATH"} |-> "/bin"]
    /\ db_application =
          [name |-> <<>>, executable_path |-> PathGameExe,
           working_directory |-> <<>>, arguments |-> <<>>,
           prefix_path |-> PrefixPath, runner_path |-> <<>>]
    /\ db_env_vars = EmptyDict
    /\ play_count = [i \in CountedAppIds |-> 0]
    /\ last_played = [i \in CountedAppIds |-> 0]
    /\ pc = "idle"
    /\ app_id = 0
    /\ working_dir = <<>>
    /\ env = EmptyDict
    /\ cmd = <<>>
    /\ log_file = <<>>
    /\ log_handle = "none"
    /\ process = <<>>
    /\ child = "none"
    /\ result = <<>>

\* No launcher process has been started side by side with another.
ConcIdle ==
    /\ app_names = <<>>
    /\ proc_pc = <<>>
    /\ proc_log = <<>>
    /\ log_contents = <<>>

\* No ControllerInput object is driven call by call.
SessionIdle == open_files = 0

\* The runners table as _create_tables leaves it: no row, no call made.
RunnersIdle ==
    /\ runners = <<>>
    /\ runner_call = <<"none", "returned">>

\* No remap dialog, no detection thread.
InputIdle ==
    /\ dialog = "closed"
    /\ shown = "none"
    /\ remapping_button = NoId
    /\ thread_pc = "none"
    /\ thread_button = NoId
    /\ device_fd = "none"
    /\ elapsed = 0
    /\ initial_axes = NoAxes
    /\ wait_result = <<>>
    /\ exit_cause = "none"
    /\ posted = NoCallback

\* No dialog has read the device or the stored mapping.
MappingIdle ==
    /\ controller_name = <<>>
    /\ controller_guid = <<>>
    /\ button_mapping = NoMapping
    /\ default_mapping = NoMapping
    /\ saved_mapping = <<>>

ApplicationRows ==
    [name : AppNames, executable_path : ExePaths, working_directory : WorkDirs,
     arguments : ArgStrings, prefix_path : {PrefixPath}, runner_path : RunnerPaths]

Init ==
    /\ ConcIdle
    /\ SessionIdle
    /\ RunnersIdle
    /\ os_environ \in EnvironChoices
    /\ db_application \in ApplicationRows
    /\ db_env_vars \in EnvVarChoices
    /\ play_count = [i \in CountedAppIds |-> 0]
    /\ last_played = [i \in CountedAppIds |-> 0]
    /\ pc = "idle"
    /\ app_id = 0
    /\ working_dir = <<>>
    /\ env = EmptyDict
    /\ cmd = <<>>
    /\ log_file = <<>>
    /\ log_handle = "none"
    /\ process = <<>>
    /\ child = "none"
    /\ result = <<>>
    /\ device_present = TRUE
    /\ InputIdle
    /\ MappingIdle

Next ==
    \/ \E id \in AppIds, pactl \in ProbeOutcomes, pwcli \in ProbeOutcomes :
          Launch(id, pactl, pwcli)
    \/ \E ok \in BOOLEAN : OpenLog(ok)
    \/ \E ok \in BOOLEAN : Spawn(ok)
    \/ \E ok \in BOOLEAN : UpdatePlayTime(ok)
    \/ CallerDiscards
    \/ ChildExits

Spec == Init /\ [][Next]_vars

(***************************************************************************)
(* The remap dialog: editing and saving the mapping                        *)
(***************************************************************************)

\* The rows edited, the tokens a detection hands over, the names and sysfs
\* ids of the devices found, and the strings stored before the first save.
EditedButtons == {<<"a">>, <<"d", "p", "u", "p">>}
DetectedTokens ==
    {<<"b", "2">>, <<"a", "1", "+">>, <<"a", "1", "-">>, <<"h", "0", ".", "4">>}
DeviceNames == {PadName, CommaName}
VendorId == <<"4", "5", "e">>
ProductId == <<"2", "8", "e">>
\* The id files of the device: both read, none there, or there and
\* reading them raises.
SysfsReads ==
    {<<VendorId, ProductId, FALSE>>, <<NoId, NoId, FALSE>>, <<VendorId, ProductId, TRUE>>}
StoredBefore ==
    <<"g", ",", "n", ",", "a", ":", "b", "5", ",", "z", "z", ":", "b", "1", ":", "c", ",", "a", ":", " ", "b", "3", " ", ",", "j", "u", "n", "k">>
ShortStored == <<"g", ",", "a", ":", "b", "1">>
SavedChoices == {<<>>, StoredBefore, ShortStored}

\* _on_input_detected run for a row and a detected token.
InputDetected(button_id, mapping_str) ==
    /\ UNCHANGED <<concVars, sessionVars, runnerVars>>
    /\ dialog = "ready"
    /\ OnInputDetected(button_id, mapping_str)
    /\ UNCHANGED <<launchVars, controller_name, controller_guid, default_mapping,
                   saved_mapping, device_present, dialog, remapping_button,
                   thread_pc, thread_button, device_fd, elapsed, initial_axes,
                   wait_result, exit_cause, posted>>

\* _on_clear_button_clicked: the row's clear button exists while the row
\* has a custom override.
ClearClicked(button_id) ==
    /\ UNCHANGED <<concVars, sessionVars, runnerVars>>
    /\ dialog = "ready"
    /\ button_id \in DOMAIN button_mapping
    /\ button_mapping' =
          [k \in DOMAIN button_mapping \ {button_id} |-> button_mapping[k]]
    /\ UNCHANGED <<launchVars, inputVars, controller_name, controller_guid,
                   default_mapping, saved_mapping>>

\* A reset that clears the rows with a Remap button pressed in this dialog
\* and keeps the overrides read from the stored mapping.
ResetConfirmed_KeepsStored(response) ==
    /\ UNCHANGED <<concVars, sessionVars, runnerVars>>
    /\ dialog = "ready"
    /\ button_mapping' =
          IF response = "reset"
          THEN [k \in DOMAIN button_mapping \ EditedButtons |-> button_mapping[k]]
          ELSE button_mapping
    /\ UNCHANGED <<launchVars, inputVars, controller_name, controller_guid,
                   default_mapping, saved_mapping>>

\* _on_reset_confirmed
ResetConfirmed(response) ==
    /\ UNCHANGED <<concVars, sessionVars, runnerVars>>
    /\ dialog = "ready"
    /\ button_mapping' = IF response = "reset" THEN NoMapping ELSE button_mapping
    /\ UNCHANGED <<launchVars, inputVars, controller_name, controller_guid,
                   default_mapping, saved_mapping>>

\* _on_save_clicked: the built string is stored under 'controller_mapping'
\* and the dialog closes; the dialog object is not used again.
SaveClicked ==
    /\ UNCHANGED <<concVars, sessionVars, runnerVars>>
    /\ dialog = "ready"
    /\ saved_mapping' = build_mapping_string(controller_guid, controller_name,
                                             button_mapping, default_mapping)
    /\ dialog' = "closed"
    /\ controller_name' = <<>>
    /\ controller_guid' = <<>>
    /\ button_mapping' = NoMapping
    /\ default_mapping' = NoMapping
    /\ UNCHANGED <<launchVars, device_present, shown, remapping_button, thread_pc,
                   thread_button, device_fd, elapsed, initial_axes, wait_result,
                   exit_cause, posted>>

InitCodec ==
    /\ ConcIdle
    /\ SessionIdle
    /\ RunnersIdle
    /\ LaunchIdle
    /\ device_present = TRUE
    /\ InputIdle
    /\ controller_name = <<>>
    /\ controller_guid = <<>>
    /\ button_mapping = NoMapping
    /\ default_mapping = NoMapping
    /\ saved_mapping \in SavedChoices

NextCodec ==
    \/ \E device_name \in DeviceNames, ids \in SysfsReads :
          OpenDialog(device_name, ids[1], ids[2], ids[3])
    \/ \E button_id \in EditedButtons, mapping_str \in DetectedTokens :
          InputDetected(button_id, mapping_str)
    \/ \E button_id \in EditedButtons : ClearClicked(button_id)
    \/ \E response \in {"reset", "cancel"} : ResetConfirmed(response)
    \/ SaveClicked

SpecCodec == InitCodec /\ [][NextCodec]_vars

InitInput ==
    /\ ConcIdle
    /\ SessionIdle
    /\ RunnersIdle
    /\ LaunchIdle
    /\ device_present \in BOOLEAN
    /\ InputIdle
    /\ MappingIdle

NextInput ==
    \/ OpenDialog(PadName, NoId, NoId, FALSE)
    \/ DismissMessage
    \/ \E button_id \in RemapButtons : RemapClicked(button_id)
    \/ ThreadConstruct
    \/ \E ok \in BOOLEAN : ThreadEnter(ok)
    \/ WaitCheck
    \/ \E ev \in Events : ReadEvent(ev)
    \/ ReadShort
    \/ ReadError
    \/ Sleep
    \/ Tick
    \/ ThreadExit
    \/ RunCallback
    \/ Replug

SpecInput == InitInput /\ [][NextInput]_vars

(***************************************************************************)
(* One ControllerInput object, its methods called in any order             *)
(***************************************************************************)

\* An open that takes a new file object whatever device_fd holds.
OpenIfClosed_Reopens ==
    /\ device_fd' = "open"
    /\ open_files' = open_files + 1

\* ControllerInput.open: a file object is opened only when device_fd is None.
OpenIfClosed ==
    /\ device_fd' = "open"
    /\ open_files' = IF device_fd = "none" THEN open_files + 1 ELSE open_files

\* The caller calls open() (or __enter__); the open of the device file
\* may raise, and then nothing is assigned.
SessionOpen(ok) ==
    /\ thread_pc = "caller"
    /\ (device_fd = "open") => ok
    /\ IF ok
       THEN OpenIfClosed /\ UNCHANGED exit_cause
       ELSE /\ exit_cause' = "openerror"
            /\ UNCHANGED <<device_fd, open_files>>
    /\ UNCHANGED <<launchVars, mappingVars, concVars, runnerVars, device_present, dialog, shown,
                   remapping_button, thread_pc, thread_button, elapsed, initial_axes,
                   wait_result, posted>>

\* The caller calls close() (or __exit__).
SessionClose ==
    /\ thread_pc = "caller"
    /\ open_files' = IF device_fd # "none" THEN open_files - 1 ELSE open_files
    /\ device_fd' = close(device_fd)
    /\ UNCHANGED <<launchVars, mappingVars, concVars, runnerVars, device_present, dialog, shown,
                   remapping_button, thread_pc, thread_button, elapsed, initial_axes,
                   wait_result, exit_cause, posted>>

\* The caller calls wait_for_input: the head of the method, which opens
\* the device when device_fd is None, takes start_time and empties
\* initial_axes.
SessionWait ==
    /\ thread_pc = "caller"
    /\ OpenIfClosed
    /\ thread_pc' = "wait_check"
    /\ elapsed' = 0
    /\ initial_axes' = NoAxes
    /\ wait_result' = <<>>
    /\ exit_cause' = "none"
    /\ UNCHANGED <<launchVars, mappingVars, concVars, runnerVars, device_present, dialog, shown,
                   remapping_button, thread_button, posted>>

\* wait_for_input hands its result to the caller.
SessionReturn ==
    /\ thread_pc = "exit"
    /\ thread_pc' = "caller"
    /\ UNCHANGED <<launchVars, mappingVars, concVars, runnerVars, sessionVars, device_present,
                   dialog, shown, remapping_button, thread_button, device_fd, elapsed,
                   initial_axes, wait_result, exit_cause, posted>>

InitSession ==
    /\ LaunchIdle
    /\ MappingIdle
    /\ ConcIdle
    /\ SessionIdle
    /\ RunnersIdle
    /\ device_present = TRUE
    /\ dialog = "closed"
    /\ shown = "none"
    /\ remapping_button = NoId
    /\ thread_pc = "caller"
    /\ thread_button = NoId
    /\ device_fd = "none"
    /\ elapsed = 0
    /\ initial_axes = NoAxes
    /\ wait_result = <<>>
    /\ exit_cause = "none"
    /\ posted = NoCallback

NextSession ==
    \/ \E ok \in BOOLEAN : SessionOpen(ok)
    \/ SessionClose
    \/ SessionWait
    \/ SessionReturn
    \/ WaitCheck
    \/ \E ev \in Events : ReadEvent(ev)
    \/ ReadShort
    \/ ReadError
    \/ Sleep
    \/ Tick

SpecSession == InitSession /\ [][NextSession]_vars

(***************************************************************************)
(* Two launcher processes (winetranslator-launch <app_id>) side by side    *)
(***************************************************************************)

\* The ids of the two applications launched, the names their rows may have
\* (applications.name is NOT NULL and not UNIQUE), and the lines a child
\* writes to its stdout.
ConcAppIds == {1, 2}
ConcNames == {<<>>, <<"G">>, TrailingName, <<"H">>}
MaxOutput == 1

\* f.write on a file opened with 'a': the entry goes to the end of the file.
AppendTo(files, name, entry) ==
    [f \in DOMAIN files |-> IF f = name THEN files[f] \o <<entry>> ELSE files[f]]

\* open(name, 'a'): the file is created empty when it is not there.
OpenAppend(files, name) ==
    [f \in DOMAIN files \cup {name} |-> IF f \in DOMAIN files THEN files[f] ELSE <<>>]

\* What application id has written to file name with the given kind.
Written(id, kind) == [app |-> id, kind |-> kind]

\* launch_wine_application names the log of the application.
ProcNameLog(id) ==
    /\ proc_pc[id] = "start"
    /\ proc_log' = [proc_log EXCEPT ![id] = LogFileName(app_names[id])]
    /\ proc_pc' = [proc_pc EXCEPT ![id] = "open"]
    /\ UNCHANGED <<launchVars, inputVars, mappingVars, sessionVars, runnerVars, app_names,
                   log_contents>>

\* log_handle = open(log_file, 'a')
ProcOpenLog(id) ==
    /\ proc_pc[id] = "open"
    /\ log_contents' = OpenAppend(log_contents, proc_log[id])
    /\ proc_pc' = [proc_pc EXCEPT ![id] = "banner"]
    /\ UNCHANGED <<launchVars, inputVars, mappingVars, sessionVars, runnerVars, app_names,
                   proc_log>>

\* The banner: the writes are buffered and reach the file at flush().
ProcWriteBanner(id) ==
    /\ proc_pc[id] = "banner"
    /\ log_contents' = AppendTo(log_contents, proc_log[id], Written(id, "banner"))
    /\ proc_pc' = [proc_pc EXCEPT ![id] = "spawn"]
    /\ UNCHANGED <<launchVars, inputVars, mappingVars, sessionVars, runnerVars, app_names,
                   proc_log>>

\* subprocess.Popen(..., stdout=log_handle, stderr=subprocess.STDOUT)
ProcSpawn(id) ==
    /\ proc_pc[id] = "spawn"
    /\ proc_pc' = [proc_pc EXCEPT ![id] = "running"]
    /\ UNCHANGED <<launchVars, inputVars, mappingVars, sessionVars, runnerVars, app_names,
                   proc_log, log_contents>>

\* The lines of application id in its log file.
OutputOf(id) ==
    SelectSeq(log_contents[proc_log[id]], LAMBDA e : e = Written(id, "output"))

\* The child writes a line to its stdout, which is the log's descriptor.
ChildWrites(id) ==
    /\ proc_pc[id] = "running"
    /\ Len(OutputOf(id)) < MaxOutput
    /\ log_contents' = AppendTo(log_contents, proc_log[id], Written(id, "output"))
    /\ UNCHANGED <<launchVars, inputVars, mappingVars, sessionVars, runnerVars, app_names,
                   proc_pc, proc_log>>

\* The child ends.
ChildDone(id) ==
    /\ proc_pc[id] = "running"
    /\ proc_pc' = [proc_pc EXCEPT ![id] = "exited"]
    /\ UNCHANGED <<launchVars, inputVars, mappingVars, sessionVars, runnerVars, app_names,
                   proc_log, log_contents>>

\* No file in app_logs.
NoFiles == [f \in {} |-> <<>>]

InitConc ==
    /\ LaunchIdle
    /\ device_present = TRUE
    /\ InputIdle
    /\ MappingIdle
    /\ SessionIdle
    /\ RunnersIdle
    /\ app_names \in [ConcAppIds -> ConcNames]
    /\ proc_pc = [id \in ConcAppIds |-> "start"]
    /\ proc_log = [id \in ConcAppIds |-> <<>>]
    /\ log_contents = NoFiles

NextConc ==
    \E id \in ConcAppIds :
        \/ ProcNameLog(id)
        \/ ProcOpenLog(id)
        \/ ProcWriteBanner(id)
        \/ ProcSpawn(id)
        \/ ChildWrites(id)
        \/ ChildDone(id)

SpecConc == InitConc /\ [][NextConc]_vars

(***************************************************************************)
(* The runners table (database/db.py, core/runner_manager.py)              *)
(***************************************************************************)

\* What a caller may name a runner, and the paths of Wine executables.
RunnerNames == {"custom", "wine", "wine64"}
WinePaths == {"/usr/bin/wine", "/usr/bin/wine64", "/usr/local/bin/wine"}

\* The place of a name under SQLite's BINARY collation (ORDER BY name ASC).
NameRank == [n \in RunnerNames |->
                CASE n = "custom" -> 1 [] n = "wine" -> 2 [] n = "wine64" -> 3]

\* One dict of find_wine_executables.
Wine(name, path) == [name |-> name, path |-> path]

\* What scan_system may return: nothing, one Wine, wine and wine64 in
\* /usr/bin, or a wine in /usr/bin and another in /usr/local/bin, both of
\* which find_wine_executables names "wine".
FoundChoices ==
    { <<>>,
      <<Wine("wine", "/usr/bin/wine")>>,
      <<Wine("wine", "/usr/bin/wine"), Wine("wine64", "/usr/bin/wine64")>>,
      <<Wine("wine", "/usr/bin/wine"), Wine("wine", "/usr/local/bin/wine")>> }

\* The ids a caller may hand to set_default_runner: those of the rows the
\* table can hold, and one that no row has.
RunnerIds == 1 .. (Cardinality(RunnerNames) + 1)

\* UPDATE runners SET is_default = 0
ClearDefaults(rows) ==
    [i \in DOMAIN rows |-> [rows[i] EXCEPT !.is_default = 0]]

\* The column name is UNIQUE: an INSERT of a taken name raises IntegrityError.
NameTaken(rows, name) == \E i \in DOMAIN rows : rows[i].name = name

\* An add_runner that leaves the default flags of the other rows alone.
add_runner_KeepsDefaults(rows, name, path, is_default) ==
    IF NameTaken(rows, name)
    THEN [rows |-> rows, raised |-> TRUE]
    ELSE [rows |-> Append(rows, [id |-> Len(rows) + 1, name |-> name,
                                   path |-> path,
                                   is_default |-> IF is_default THEN 1 ELSE 0]),
          raised |-> FALSE]

\* Database.add_runner as this connection sees the table afterwards.  The
\* UPDATE runs before the INSERT; when the INSERT raises, the statement is
\* undone but the UPDATE stays in the open transaction.  No row is ever
\* deleted, so AUTOINCREMENT hands out Len(rows) + 1.
add_runner(rows, name, path, is_default) ==
    LET cleared == IF is_default THEN ClearDefaults(rows) ELSE rows
    IN  IF NameTaken(rows, name)
        THEN [rows |-> cleared, raised |-> TRUE]
        ELSE [rows |-> Append(cleared, [id |-> Len(rows) + 1, name |-> name,
                                          path |-> path,
                                          is_default |-> IF is_default THEN 1 ELSE 0]),
              raised |-> FALSE]

\* Database.set_default_runner
set_default_runner(rows, runner_id) ==
    [i \in DOMAIN rows |->
        [rows[i] EXCEPT !.is_default = IF rows[i].id = runner_id THEN 1 ELSE 0]]

\* Database.get_runners()[0]: ORDER BY is_default DESC, name ASC.
ComesBefore(r, q) ==
    \/ r.is_default > q.is_default
    \/ r.is_default = q.is_default /\ NameRank[r.name] < NameRank[q.name]

FirstRunner(rows) ==
    CHOOSE i \in DOMAIN rows :
        \A j \in DOMAIN rows : j # i => ComesBefore(rows[i], rows[j])

\* The paths that key existing_runners.
ExistingPaths(rows) == {rows[i].path : i \in DOMAIN rows}

\* The loop of auto_detect_and_add from found[i] on; existing is the key
\* set of existing_runners, which the loop never updates.
RECURSIVE AddFound(_, _, _, _, _)
AddFound(rows, found, i, existing, added_count) ==
    IF i > Len(found)
    THEN [rows |-> rows, added |-> added_count, raised |-> FALSE]
    ELSE IF found[i].path \in existing
         THEN AddFound(rows, found, i + 1, existing, added_count)
         ELSE LET r == add_runner(rows, found[i].name, found[i].path,
                                  added_count = 0 /\ existing = {})
              IN  IF r.raised
                  THEN [rows |-> r.rows, added |-> added_count, raised |-> TRUE]
                  ELSE AddFound(r.rows, found, i + 1, existing, added_count + 1)

\* RunnerManager.auto_detect_and_add
auto_detect_and_add(rows, found) ==
    AddFound(rows, found, 1, ExistingPaths(rows), 0)

AnyDefault(rows) == \E i \in DOMAIN rows : rows[i].is_default # 0

\* RunnerManager.ensure_default_runner
ensure_default_runner(rows, found) ==
    IF rows = <<>>
    THEN LET r == auto_detect_and_add(rows, found)
         IN  [rows |-> r.rows, raised |-> r.raised \/ r.added = 0]
    ELSE IF ~AnyDefault(rows)
         THEN [rows |-> set_default_runner(rows, rows[FirstRunner(rows)].id),
               raised |-> FALSE]
         ELSE [rows |-> rows, raised |-> FALSE]

HowEnded(raised) == IF raised THEN "raised" ELSE "returned"

\* A caller adds a runner.
AddRunner(name, path, is_default) ==
    LET r == add_runner(runners, name, path, is_default)
    IN  /\ runners' = r.rows
        /\ runner_call' = <<"add_runner", HowEnded(r.raised)>>
        /\ UNCHANGED <<launchVars, inputVars, mappingVars, concVars, sessionVars>>

\* A caller scans the system and adds what it finds.
AutoDetectAndAdd(found) ==
    LET r == auto_detect_and_add(runners, found)
    IN  /\ runners' = r.rows
        /\ runner_call' = <<"auto_detect_and_add", HowEnded(r.raised)>>
        /\ UNCHANGED <<launchVars, inputVars, mappingVars, concVars, sessionVars>>

\* A caller makes one runner the default.
SetDefaultRunner(runner_id) ==
    /\ runners' = set_default_runner(runners, runner_id)
    /\ runner_call' = <<"set_default_runner", "returned">>
    /\ UNCHANGED <<launchVars, inputVars, mappingVars, concVars, sessionVars>>

\* The main window asks for a default runner.
EnsureDefaultRunner(found) ==
    LET r == ensure_default_runner(runners, found)
    IN  /\ runners' = r.rows
        /\ runner_call' = <<"ensure_default_runner", HowEnded(r.raised)>>
        /\ UNCHANGED <<launchVars, inputVars, mappingVars, concVars, sessionVars>>

InitRunners ==
    /\ LaunchIdle
    /\ device_present = TRUE
    /\ InputIdle
    /\ MappingIdle
    /\ ConcIdle
    /\ SessionIdle
    /\ RunnersIdle

NextRunners ==
    \/ \E name \in RunnerNames, path \in WinePaths, is_default \in BOOLEAN :
           AddRunner(name, path, is_default)
    \/ \E found \in FoundChoices : AutoDetectAndAdd(found)
    \/ \E runner_id \in RunnerIds : SetDefaultRunner(runner_id)
    \/ \E found \in FoundChoices : EnsureDefaultRunner(found)

SpecRunners == InitRunners /\ [][NextRunners]_vars

(***************************************************************************)
(* Properties of the launch path                                           *)
(***************************************************************************)

Spawned == process # <<>>

\* The keys launch_wine_application sets itself.
LauncherKeys == {"WINEPREFIX", "WINEAUDIODRIVER", "WINEDLLOVERRIDES"}

\* C1: in every launch that spawned a process, each per-application override
\* whose key the launcher also sets itself or that is inherited from the
\* parent environment has the override's value in the environment handed to
\* the process.
C1_OverrideWins ==
    Spawned =>
        \A k \in DOMAIN db_env_vars :
            k \in LauncherKeys \cup DOMAIN os_environ =>
                /\ k \in DOMAIN process[1].env
                /\ process[1].env[k] = db_env_vars[k]

\* A process was spawned with WINEDLLOVERRIDES both inherited and overridden,
\* and with WINEPREFIX overridden.
C1_Witness ==
    /\ Spawned
    /\ "WINEDLLOVERRIDES" \in DOMAIN db_env_vars
    /\ "WINEPREFIX" \in DOMAIN db_env_vars
    /\ "WINEDLLOVERRIDES" \in DOMAIN os_environ
    /\ process[1].env["WINEDLLOVERRIDES"] = "d3d9=n"
    /\ process[1].env["WINEPREFIX"] = "/alt"

\* d is the parent directory of the path p: p is d, a slash and a last
\* component without a slash (the root is its own spelling).
IsParentDir(d, p) ==
    \E i \in 1..Len(p) :
        /\ p[i] = "/"
        /\ \A j \in (i + 1)..Len(p) : p[j] # "/"
        /\ i < Len(p)
        /\ d = IF i = 1 THEN <<"/">> ELSE SubSeq(p, 1, i - 1)

\* C2: a process spawned for a row whose working directory is empty or not
\* an existing directory runs in the parent directory of the executable; a
\* working directory that exists is used unchanged.
C2_WorkingDirectory ==
    Spawned =>
        IF db_application.working_directory \in FsDirs
        THEN process[1].cwd = db_application.working_directory
        ELSE IsParentDir(process[1].cwd, db_application.executable_path)

\* A process was spawned for a row whose working directory does not exist,
\* in the directory of its executable.
C2_Witness ==
    /\ Spawned
    /\ db_application.working_directory = PathNoDir
    /\ db_application.executable_path = PathGameExe
    /\ process[1].cwd = PathGameDir

\* The three variables are in the environment handed to the process.
LauncherKeysPresent == LauncherKeys \subseteq DOMAIN process[1].env

\* The value the DLL-override step leaves: the launcher's entry appended to
\* the inherited value, or alone.
DllOverridesAppended ==
    IF "WINEDLLOVERRIDES" \in DOMAIN os_environ
    THEN os_environ["WINEDLLOVERRIDES"] \o ";dsound=n,b"
    ELSE "dsound=n,b"

\* C3 as stated: for every inherited environment and every set of
\* overrides the spawned process's environment has WINEPREFIX,
\* WINEAUDIODRIVER and WINEDLLOVERRIDES, the last being the inherited value
\* with the launcher's entry appended, or the launcher's entry alone.
C3_AsStated ==
    Spawned =>
        /\ LauncherKeysPresent
        /\ process[1].env["WINEDLLOVERRIDES"] = DllOverridesAppended

\* C3 amended: the three variables are always present; WINEDLLOVERRIDES is
\* the inherited value with the launcher's entry appended, or the launcher's
\* entry alone, unless the overrides set WINEDLLOVERRIDES, and then it is the
\* override's value.
C3_EnvironmentCarriesKeys ==
    Spawned =>
        /\ LauncherKeysPresent
        /\ process[1].env["WINEDLLOVERRIDES"] =
              IF "WINEDLLOVERRIDES" \in DOMAIN db_env_vars
              THEN db_env_vars["WINEDLLOVERRIDES"]
              ELSE DllOverridesAppended

\* A process was spawned with an inherited WINEDLLOVERRIDES that no override
\* replaces: the launcher's entry follows the inherited one.
C3_Witness ==
    /\ Spawned
    /\ "WINEDLLOVERRIDES" \in DOMAIN os_environ
    /\ "WINEDLLOVERRIDES" \notin DOMAIN db_env_vars
    /\ process[1].env["WINEDLLOVERRIDES"] = "mscoree=d;dsound=n,b"

\* C4: when launch reports failure no child process was spawned by the
\* call, and when a child was spawned the call reports success and returns
\* its handle.
C4_FailureSpawnsNothing ==
    result # <<>> =>
        /\ ~result[1].success => child = "none"
        /\ child # "none" => result[1].success /\ result[1].process

\* C5: the log file object a launch opened is closed once the launch is
\* over: after a spawn that failed and a call that returned, and after the
\* caller dropped the process handle and the child exited.
C5_LogHandleClosed ==
    /\ (pc \in {"returned", "discarded"} /\ ~Spawned) => log_handle # "open"
    /\ (pc = "discarded" /\ child = "exited") => log_handle # "open"

(***************************************************************************)
(* Properties of the joystick reader and the detection thread              *)
(***************************************************************************)

\* C6: when a detection session of the remap dialog has ended, however it
\* ended (input, timeout, short read, exception while waiting), the device
\* handle it acquired is released.
C6_DeviceReleased ==
    thread_pc = "finished" => device_fd = "none"

\* A session that opened the device and ended by timeout is over.
C6_Witness ==
    /\ thread_pc = "finished"
    /\ exit_cause = "timeout"
    /\ device_fd = "none"

\* C7: wait_for_input returns None when the timeout has elapsed without a
\* qualifying event, and is never inside a device read after the timeout
\* bound has passed.
C7_WaitBounded ==
    /\ exit_cause = "timeout" => wait_result = <<>>
    /\ thread_pc = "wait_read" => elapsed <= Timeout

\* C8: a read of fewer than 8 bytes ends the wait with an outcome other
\* than the timeout's: wait_for_input does not return None for it and the
\* dialog is not handed, and does not show, the timeout message.
C8_ShortReadDistinct ==
    (exit_cause = "short" /\ thread_pc \in {"exit", "finished"}) =>
        /\ wait_result # <<>>
        /\ posted # NoCallback => posted[1].kind # "timeout"
        /\ shown # "Timeout"

\* C9: a session that found no controller device is not reported as a
\* timeout: the callback handed to the dialog and the message shown differ
\* from the timeout's.
C9_NoControllerDistinct ==
    exit_cause = "nodevice" =>
        /\ posted # NoCallback => posted[1].kind # "timeout"
        /\ shown # "Timeout"

(***************************************************************************)
(* Properties of the mapping codec                                         *)
(***************************************************************************)

CanonicalNames == {BUTTONS[i] : i \in 1..Len(BUTTONS)}

\* The string the open dialog would build now.
BuiltNow ==
    build_mapping_string(controller_guid, controller_name, button_mapping,
                         default_mapping)

\* The names of the entries of a mapping string: what stands before the
\* first colon of each field after the second.
EntryNames(mapping_str) ==
    LET parts == split(mapping_str, ",")
    IN  { SubSeq(parts[i], 1, FirstFrom(parts[i], ":", 1) - 1) :
            i \in {j \in 3..Len(parts) : FirstFrom(parts[j], ":", 1) > 0} }

\* C10: parsing the string built from the dialog's mapping gives, for every
\* canonical name with a custom override, exactly the override's token; a
\* canonical name with neither a custom nor a default token is in neither
\* the built string nor the parsed mapping.
C10_RoundTrip ==
    dialog = "ready" =>
        LET parsed == parse_mapping(BuiltNow) IN
        \A n \in CanonicalNames :
            /\ n \in DOMAIN button_mapping =>
                  n \in DOMAIN parsed /\ parsed[n] = button_mapping[n]
            /\ (n \notin DOMAIN button_mapping /\ n \notin DOMAIN default_mapping) =>
                  n \notin DOMAIN parsed /\ n \notin EntryNames(BuiltNow)

\* The dialog of a device whose name has a comma holds overrides of two
\* rows, an axis token and a hat token, and the built string parses back to
\* them.
C10_Witness ==
    /\ dialog = "ready"
    /\ controller_name = CommaName
    /\ DOMAIN button_mapping = EditedButtons
    /\ button_mapping[<<"a">>] = <<"a", "1", "-">>
    /\ button_mapping[<<"d", "p", "u", "p">>] = <<"h", "0", ".", "4">>
    /\ parse_mapping(BuiltNow)[<<"a">>] = <<"a", "1", "-">>

\* C11: a confirmed "restore defaults" leaves no custom override, whatever
\* remaps and clears came before it, and changes nothing else of the
\* dialog; so a second one in a row leaves the state of the first.
C11_RestoreDefaults ==
    [][ResetConfirmed("reset") =>
          /\ button_mapping' = NoMapping
          /\ UNCHANGED <<controller_name, controller_guid, default_mapping,
                         saved_mapping, dialog>>
          /\ button_mapping = NoMapping => UNCHANGED vars]_vars

\* An open dialog whose stored mapping held overrides, one of them under a
\* name no row can clear, has no override left: the reset has run.
C11_Witness ==
    /\ dialog = "ready"
    /\ saved_mapping = StoredBefore
    /\ DOMAIN parse_mapping(saved_mapping) \ EditedButtons # {}
    /\ button_mapping = NoMapping

(***************************************************************************)
(* Properties of the controller GUID                                       *)
(***************************************************************************)

\* The GUID of a device whose id files were read.
GuidFromIds == get_device_guid(VendorId, ProductId)

\* C12: the GUID of a device without vendor and product metadata is the
\* 32-character hex digest of its name.
C12_FallbackGuid ==
    (dialog = "ready" /\ controller_guid # GuidFromIds) =>
        /\ Len(controller_guid) = 32
        /\ controller_guid = md5_hexdigest(controller_name)

(***************************************************************************)
(* Properties of the log file's name                                       *)
(***************************************************************************)

\* The characters a log name may keep.
IsAllowedInLogName(c) == isalnum(c) \/ c \in {" ", "-", "_"}

\* The allowed characters of the application's name, in their order.
AllowedOfName == SelectSeq(db_application.name, IsAllowedInLogName)

\* The launch has named the log of an application that has a name.
LogNamed == log_file # <<>> /\ Len(db_application.name) > 0

\* C13 as stated: the log's name is exactly the allowed characters of the
\* application's name, in their order, nothing dropped among them.
C13_AsStated == LogNamed => log_file = AllowedOfName \o DotLog

\* C13: the log's name is the allowed characters of the application's
\* name, in their order, up to the last one that is not a space: the
\* spaces left at the end are dropped too.
C13_LogNameKeepsAllowed ==
    LogNamed =>
        \E n \in 0..Len(AllowedOfName) :
            /\ log_file = SubSeq(AllowedOfName, 1, n) \o DotLog
            /\ \A i \in (n + 1)..Len(AllowedOfName) : AllowedOfName[i] = " "
            /\ n > 0 => AllowedOfName[n] # " "

\* The log of "My Game: Deluxe!" is named "My Game Deluxe.log".
C13_Witness ==
    /\ db_application.name = DeluxeName
    /\ log_file = <<"M", "y", " ", "G", "a", "m", "e", " ", "D", "e", "l", "u", "x", "e">> \o DotLog

(***************************************************************************)
(* Properties of launches side by side                                     *)
(***************************************************************************)

\* C14: the two processes, which launch different applications, never
\* have the same log file, and no log file holds what two applications
\* wrote.
C14_SeparateLogs ==
    /\ (proc_log[1] # <<>> /\ proc_log[2] # <<>>) => proc_log[1] # proc_log[2]
    /\ \A f \in DOMAIN log_contents :
          \A i, j \in 1..Len(log_contents[f]) :
              log_contents[f][i].app = log_contents[f][j].app

(***************************************************************************)
(* Properties of the audio-driver detection and of the command             *)
(***************************************************************************)

\* C15: once launch has passed the checks of the row and called
\* launch_wine_application, the detection of the audio driver has returned
\* a driver whatever the two probes did: the environment carries
\* WINEAUDIODRIVER, and it is 'pulse' or 'alsa' unless an override names
\* another.
C15_DetectionNeverRaises ==
    working_dir # <<>> =>
        /\ "WINEAUDIODRIVER" \in DOMAIN env
        /\ "WINEAUDIODRIVER" \notin DOMAIN db_env_vars =>
               env["WINEAUDIODRIVER"] \in {"pulse", "alsa"}

\* The k-th smallest member of a set of numbers.
NthOf(S, k) == CHOOSE x \in S : Cardinality({y \in S : y < x}) = k - 1

\* The maximal runs of non-whitespace characters of a string, in order.
TokensOf(a) ==
    LET starts == {i \in 1..Len(a) :
                      a[i] \notin Whitespace /\ (i = 1 \/ a[i - 1] \in Whitespace)}
        ends == {i \in 1..Len(a) :
                      a[i] \notin Whitespace /\ (i = Len(a) \/ a[i + 1] \in Whitespace)}
    IN  [k \in 1..Cardinality(starts) |-> SubSeq(a, NthOf(starts, k), NthOf(ends, k))]

\* C16: the command given to Popen is the runner path, the executable
\* path, then the whitespace-separated tokens of the argument string in
\* their order; a string without tokens adds nothing.
C16_ArgumentVector ==
    Spawned =>
        process[1].cmd =
            <<db_application.runner_path, db_application.executable_path>>
                \o TokensOf(db_application.arguments)

\* A child was spawned for the argument string "-a  b ": four words.
C16_Witness ==
    /\ Spawned
    /\ db_application.arguments = TwoArgs
    /\ Len(process[1].cmd) = 4
    /\ process[1].cmd[3] = <<"-", "a">>
    /\ process[1].cmd[4] = <<"b">>

(***************************************************************************)
(* Properties of one ControllerInput object                                *)
(***************************************************************************)

\* C17: the object holds one file object when device_fd is set and none
\* when it is None; an open that returns leaves it Open, taking a file
\* object only from Closed; wait_for_input opens a Closed object, and is
\* Open when it hands back its result; close leaves it Closed, and does
\* nothing to a Closed object.
C17_HandleStateMachine ==
    /\ [](open_files = IF device_fd = "open" THEN 1 ELSE 0)
    /\ [][SessionOpen(TRUE) =>
              /\ device_fd' = "open"
              /\ open_files' = IF device_fd = "none" THEN open_files + 1 ELSE open_files]_vars
    /\ [][SessionWait =>
              /\ device_fd' = "open"
              /\ open_files' = IF device_fd = "none" THEN open_files + 1 ELSE open_files]_vars
    /\ [][SessionReturn => (device_fd' = "open" /\ open_files' = 1)]_vars
    /\ [][SessionClose => (device_fd' = "none" /\ open_files' = 0)]_vars
    /\ [][(SessionClose /\ device_fd = "none") => UNCHANGED vars]_vars

\* An Open object back in the caller's hands after a wait that ended in a
\* short read: one file object, still held.
C17_Witness ==
    /\ thread_pc = "caller"
    /\ exit_cause = "short"
    /\ device_fd = "open"
    /\ open_files = 1

(***************************************************************************)
(* Properties of the events wait_for_input reads                           *)
(***************************************************************************)

\* wait_for_input has ended with result r for an input.
ReturnsInput(r) == thread_pc' = "exit" /\ exit_cause' = "input" /\ wait_result' = r

\* wait_for_input goes on waiting after the event.
GoesOn == thread_pc' \in {"wait_check", "wait_sleep"} /\ wait_result' = <<>>

\* C18: a button event without the initialization flag and with value 1
\* ends the wait with ('button', its number); a button event with value 0
\* never ends it.
C18_ButtonPress ==
    [][\A ev \in ButtonEvents :
          (ReadEvent(ev) /\ ev.type = JS_EVENT_BUTTON) =>
              IF ev.value = 1
              THEN ReturnsInput(<<[kind |-> "button", number |-> ev.number,
                                   axis_str |-> <<>>]>>)
              ELSE GoesOn]_vars

\* A wait has ended on a press of button 1.
C18_Witness ==
    /\ thread_pc = "exit"
    /\ exit_cause = "input"
    /\ wait_result # <<>>
    /\ wait_result[1].kind = "button"
    /\ wait_result[1].number = 1

\* initial_axes with the position of one axis recorded.
Recorded(axes, number, value) ==
    [n \in DOMAIN axes \cup {number} |-> IF n = number THEN value ELSE axes[n]]

\* C19: an event with the initialization flag never ends the wait, whatever
\* its value; the wait goes back to the head of its loop, and nothing
\* changes but initial_axes, which takes the position of an initialization
\* axis event.
C19_InitEventsIgnored ==
    [][\A ev \in Events :
          (ReadEvent(ev) /\ ev.type >= JS_EVENT_INIT) =>
              /\ thread_pc' = "wait_check"
              /\ wait_result' = <<>>
              /\ UNCHANGED <<device_fd, elapsed, exit_cause, posted>>
              /\ initial_axes' =
                    IF ev.type = JS_EVENT_INIT + JS_EVENT_AXIS
                    THEN Recorded(initial_axes, ev.number, ev.value)
                    ELSE initial_axes]_vars

\* A wait still running after the replay gave a fully deflected axis 1.
C19_Witness ==
    /\ thread_pc = "wait_check"
    /\ wait_result = <<>>
    /\ exit_cause = "none"
    /\ DOMAIN initial_axes = {1}
    /\ initial_axes[1] = 16001

\* C20: an axis event without the initialization flag, on an axis whose
\* position is recorded, ends the wait with an axis result when its value is
\* more than 16000 away from the recorded position, and only then.
C20_AxisThreshold ==
    [][\A ev \in AxisEvents :
          (ReadEvent(ev) /\ ev.type = JS_EVENT_AXIS /\ ev.number \in DOMAIN initial_axes) =>
              LET d == ev.value - initial_axes[ev.number] IN
              IF d > 16000 \/ d < -16000
              THEN /\ thread_pc' = "exit"
                   /\ exit_cause' = "input"
                   /\ wait_result'[1].kind = "axis"
                   /\ wait_result'[1].number = ev.number
              ELSE GoesOn]_vars

\* A wait has ended on axis 1 moved below its recorded position.
C20_Witness ==
    /\ thread_pc = "exit"
    /\ exit_cause = "input"
    /\ wait_result # <<>>
    /\ wait_result[1].kind = "axis"
    /\ wait_result[1].axis_str = <<"a", "1", "-">>

FieldsOf(t, ch) ==
    LET at == {i \in 1..Len(t) : t[i] = ch}
        n == Cardinality(at) + 1
    IN  [k \in 1..n |->
            SubSeq(t, IF k = 1 THEN 1 ELSE NthOf(at, k - 1) + 1,
                      IF k = n THEN Len(t) ELSE NthOf(at, k) - 1)]

\* A text without the whitespace around it.
Trimmed(t) ==
    LET ink == {i \in 1..Len(t) : t[i] \notin Whitespace}
    IN  IF ink = {} THEN <<>>
        ELSE SubSeq(t, NthOf(ink, 1), NthOf(ink, Cardinality(ink)))

HasColon(f) == \E i \in 1..Len(f) : f[i] = ":"
FirstColon(f) == NthOf({i \in 1..Len(f) : f[i] = ":"}, 1)
NameOfField(f) == Trimmed(SubSeq(f, 1, FirstColon(f) - 1))
TokenOfField(f) == Trimmed(SubSeq(f, FirstColon(f) + 1, Len(f)))

\* What the rules of parsing give for a stored string.
ParsedByRules(t) ==
    LET fields == FieldsOf(t, ",")
        used == {i \in 3..Len(fields) : HasColon(fields[i])}
        last(name) == CHOOSE i \in used :
                          /\ NameOfField(fields[i]) = name
                          /\ \A j \in used : NameOfField(fields[j]) = name => j <= i
    IN  IF Len(t) = 0 \/ Len(fields) < 3 THEN [name \in {} |-> <<>>]
        ELSE [name \in {NameOfField(fields[i]) : i \in used} |->
                 TokenOfField(fields[last(name)])]

\* The dialog opens on a connected controller.
DialogOpens ==
    /\ dialog' = "ready"
    /\ \E device_name \in DeviceNames, ids \in SysfsReads :
          OpenDialog(device_name, ids[1], ids[2], ids[3])

RECURSIVE EntriesUpTo(_, _, _)
EntriesUpTo(k, bm, dm) ==
    IF k = 0 THEN <<>>
    ELSE EntriesUpTo(k - 1, bm, dm) \o
         (IF BUTTONS[k] \in DOMAIN bm
          THEN <<",">> \o BUTTONS[k] \o <<":">> \o bm[BUTTONS[k]]
          ELSE IF BUTTONS[k] \in DOMAIN dm
          THEN <<",">> \o BUTTONS[k] \o <<":">> \o dm[BUTTONS[k]]
          ELSE <<>>)

\* One override, a:b2.
OnlyAB2 == [n \in {<<"a">>} |-> <<"b", "2">>]

\* C23: the string a save stores is the GUID, the device name, then the
\* entries of the canonical names in their order, each once, the custom
\* token before the default one; and building from the one override a:b2
\* over an empty default layout gives exactly GUID,name,a:b2.
C23_BuildRules ==
    /\ [][SaveClicked =>
              saved_mapping' =
                  controller_guid \o <<",">> \o controller_name \o
                  EntriesUpTo(Len(BUTTONS), button_mapping, default_mapping)]_vars
    /\ [](build_mapping_string(GuidFromIds, PadName, OnlyAB2, NoMapping) =
              GuidFromIds \o <<",">> \o PadName \o <<",", "a", ":", "b", "2">>)

\* A string was saved that holds the override a:b2 and, for b, the
\* default b1.
C23_Witness ==
    /\ dialog = "closed"
    /\ saved_mapping \notin SavedChoices
    /\ parse_mapping(saved_mapping)[<<"a">>] = <<"b", "2">>
    /\ parse_mapping(saved_mapping)[<<"b">>] = <<"b", "1">>
    /\ Len(split(saved_mapping, ",")) = 2 + Len(BUTTONS)

\* The number of entries of the string the open dialog would build: its
\* fields, less those of the GUID and the device name.
EntryCount ==
    Len(FieldsOf(BuiltNow, ",")) -
    Len(FieldsOf(controller_guid \o <<",">> \o controller_name, ","))

\* C24 as stated: the builder walks 20 canonical names and a built string
\* has at most 20 entries.
C24_AsStated ==
    /\ Cardinality(CanonicalNames) = 20
    /\ dialog = "ready" => EntryCount <= 20

\* C24: the builder walks a fixed list of 21 different canonical names (4
\* face buttons, back, start, guide, 2 shoulders, 2 stick clicks, 4 stick
\* axes, 2 triggers, 4 D-pad directions), and a built string has at most 21
\* entries.
C24_CanonicalNames ==
    /\ Len(BUTTONS) = 21
    /\ Cardinality(CanonicalNames) = 21
    /\ dialog = "ready" => EntryCount <= 21

\* A dialog with the one override of dpup would build a string of 21
\* entries.
C24_Witness ==
    /\ dialog = "ready"
    /\ DOMAIN button_mapping = {<<"d", "p", "u", "p">>}
    /\ EntryCount = 21

\* C25: an open dialog without custom overrides would build the default
\* mapping string of its controller: the GUID, the name and the default
\* layout, character for character.
C25_NoOverrideIsDefault ==
    (dialog = "ready" /\ button_mapping = NoMapping) =>
        BuiltNow = controller_guid \o <<",">> \o controller_name \o <<",">>
                       \o DefaultLayoutText

\* A dialog opened without a stored mapping on the device whose name has
\* separators in it and whose GUID is the hash of the name.
C25_Witness ==
    /\ dialog = "ready"
    /\ button_mapping = NoMapping
    /\ saved_mapping = <<>>
    /\ controller_name = CommaName
    /\ controller_guid = md5_hexdigest(CommaName)
    /\ BuiltNow = get_default_mapping(controller_guid, controller_name)

\* The canonical names that can ever be a custom override: those a
\* detection is stored for, and the one the string stored before the first
\* save overrides.
EverOverridden == EditedButtons \cup {<<"a">>}

\* C26: saving and reopening keeps the set of custom overrides, so the
\* canonical names with a custom override in an open dialog are always
\* among those that were remapped or were overrides of the string first
\* stored; a name left on its default stays a default.
C26_ReloadKeepsOverrides ==
    dialog = "ready" => (DOMAIN button_mapping \cap CanonicalNames) \subseteq EverOverridden

(***************************************************************************)
(* Properties of a dismissed remap request                                 *)
(***************************************************************************)

\* C27: once the "Waiting for input" prompt of a request has been
\* dismissed, the callback of that request's detection does not change the
\* button mapping.
C27_CancelledNeverWrites ==
    [][(RunCallback /\ shown # "Waiting") => UNCHANGED button_mapping]_vars

(***************************************************************************)
(* Properties of the axis baseline                                         *)
(***************************************************************************)

\* The value wait_for_input compares the next event of an axis against.
BaselineOf(axes, number) == IF number \in DOMAIN axes THEN axes[number] ELSE 0

\* C28: an axis event without the initialization flag that does not end
\* the wait leaves the baseline of its axis as it was: the next event of
\* the axis is compared against the same value.
C28_BaselineFixed ==
    [][\A ev \in AxisEvents :
          (ReadEvent(ev) /\ ev.type = JS_EVENT_AXIS /\ thread_pc' # "exit") =>
              BaselineOf(initial_axes', ev.number) = BaselineOf(initial_axes, ev.number)]_vars

(***************************************************************************)
(* Properties of the play bookkeeping                                      *)
(***************************************************************************)

\* The bookkeeping before any launch, and after one launch of row id.
NeverPlayed == [i \in CountedAppIds |-> 0]
PlayedOnce(id) == [i \in CountedAppIds |-> IF i = id THEN 1 ELSE 0]

LaunchOver == pc \in {"returned", "discarded"}

DefaultRunners == {i \in DOMAIN runners : runners[i].is_default # 0}

EnsureReturned == runner_call = <<"ensure_default_runner", "returned">>

\* C30: after any sequence of add_runner, auto_detect_and_add,
\* set_default_runner and ensure_default_runner at most one runner is
\* marked default, and when ensure_default_runner has returned without
\* raising exactly one runner is marked default.
C30_OneDefault ==
    /\ Cardinality(DefaultRunners) <= 1
    /\ EnsureReturned => Cardinality(DefaultRunners) = 1

\* ensure_default_runner found two runners, neither the default, and made
\* the first by name the default: the one added second.
C30_Witness ==
    /\ EnsureReturned
    /\ Len(runners) = 2
    /\ runners[1].name = "wine" /\ runners[1].is_default = 0
    /\ runners[2].name = "custom" /\ runners[2].is_default = 1

====
